---------------------------- MODULE Spec2Model ----------------------------
(***************************************************************************)
(* A model of QuestionnaireAnalysis (src/hw5.py): one in-memory table      *)
(* (self.data) and the five operations over it.  The table is a pandas     *)
(* DataFrame: an index (row labels), an ordered list of column names and   *)
(* one record per row.  Numeric cells are exact rationals n/d with a       *)
(* "missing" flag (NaN / NA); e-mails are sequences of characters.         *)
(***************************************************************************)
EXTENDS Integers, Sequences, FiniteSets, TLC

\* data: self.data; maximal_nans_per_sub: the attribute score_subjects sets
\* (<<>> until it is set); ret: the value the last call returned; loaded: the
\* table as read_data produced it (never changed, kept for reference)
VARIABLES data, maximal_nans_per_sub, ret, loaded

vars == <<data, maximal_nans_per_sub, ret, loaded>>

(***************************************************************************)
(* Bounds of the model.                                                    *)
(***************************************************************************)
NumRows == 2
MaxGrade == 100
MaxNans == 5
MaxTld == 7

(***************************************************************************)
(* Numeric cells.                                                          *)
(***************************************************************************)
NaN == [na |-> TRUE, n |-> 0, d |-> 1]

Num(i) == [na |-> FALSE, n |-> i, d |-> 1]

Abs(i) == IF i < 0 THEN 0 - i ELSE i

RECURSIVE GCD(_, _)
GCD(a, b) == IF b = 0 THEN a ELSE GCD(b, a % b)

\* the rational a/b (b > 0) in lowest terms
Rat(a, b) ==
    LET g == GCD(Abs(a), b)
    IN  [na |-> FALSE, n |-> a \div g, d |-> b \div g]

RatAdd(x, y) == Rat(x.n * y.d + y.n * x.d, x.d * y.d)

RatDivInt(x, k) == Rat(x.n, x.d * k)

RatLess(x, y) == x.n * y.d < y.n * x.d

isna(x) == x.na

\* a variant of floor that rounds up
floor_Ceil(x) ==
    IF x.na THEN NaN
    ELSE IF x.n % x.d = 0 THEN Num(x.n \div x.d) ELSE Num(x.n \div x.d + 1)

\* np.floor on a float; NaN stays NaN
floor(x) == IF x.na THEN NaN ELSE Num(x.n \div x.d)

(***************************************************************************)
(* Sequence helpers.                                                       *)
(***************************************************************************)
Range(s) == {s[i] : i \in DOMAIN s}

RECURSIVE SelectPositions(_, _)
\* the positions of s where the mask holds, ascending (np.where(mask)[0])
SelectPositions(mask, k) ==
    IF k = 0 THEN <<>>
    ELSE LET rest == SelectPositions(mask, k - 1)
         IN  IF mask[k] THEN Append(rest, k - 1) ELSE rest

np_where(mask) == SelectPositions(mask, Len(mask))

PositionOf(s, x) == CHOOSE i \in DOMAIN s : s[i] = x

(***************************************************************************)
(* Column selection: df.loc[:, 'q1':'q5'] is the label slice, both ends    *)
(* included, in column order.                                              *)
(***************************************************************************)
LabelSlice(df, first, last) ==
    SubSeq(df.columns, PositionOf(df.columns, first), PositionOf(df.columns, last))

GradeColumns(df) == LabelSlice(df, "q1", "q5")

\* the grades of row i, as the sequence of its cells in the sliced columns
GradesOf(df, i) ==
    LET cols == GradeColumns(df)
    IN  [k \in DOMAIN cols |-> df.rows[i][cols[k]]]

RECURSIVE SumPresent(_, _)
SumPresent(cells, k) ==
    IF k = 0 THEN Num(0)
    ELSE IF isna(cells[k]) THEN SumPresent(cells, k - 1)
         ELSE RatAdd(SumPresent(cells, k - 1), cells[k])

CountPresent(cells) == Cardinality({k \in DOMAIN cells : ~isna(cells[k])})

CountMissing(cells) == Cardinality({k \in DOMAIN cells : isna(cells[k])})

\* Series/DataFrame mean with skipna: NaN when nothing is present
mean(cells) ==
    IF CountPresent(cells) = 0 THEN NaN
    ELSE RatDivInt(SumPresent(cells, Len(cells)), CountPresent(cells))


(***************************************************************************)
(* Row labels.  self.data comes from pd.read_json and carries the default  *)
(* index 0..N-1; .loc and Series alignment go through these labels.        *)
(***************************************************************************)
RangeIndex(n) == [i \in 1..n |-> i - 1]

RowOfLabel(df, l) == CHOOSE i \in DOMAIN df.index : df.index[i] = l

\* df[name] = values: overwrite the column, or append it as the last one
SetColumn(df, name, values) ==
    [index   |-> df.index,
     columns |-> IF name \in Range(df.columns) THEN df.columns
                 ELSE Append(df.columns, name),
     rows    |-> [i \in DOMAIN df.rows |->
                    [c \in (DOMAIN df.rows[i]) \cup {name} |->
                        IF c = name THEN values[i] ELSE df.rows[i][c]]]]

(***************************************************************************)
(* fill_na_with_mean (src/hw5.py 50-66)                                    *)
(***************************************************************************)
\* grades.isna().any(axis=1), one truth value per row position
AnyMissing(df) == [i \in DOMAIN df.rows |-> CountMissing(GradesOf(df, i)) > 0]

\* grades.mean(axis=1): a Series labelled like the rows
RowMeans(df) == [i \in DOMAIN df.rows |-> mean(GradesOf(df, i))]

\* the value fillna takes for the column of grades.T labelled l
FillValue(df, l) == RowMeans(df)[RowOfLabel(df, l)]

\* a variant of FilledCell without the transpositions: grades.fillna(grades.mean())
\* fills a missing cell with the mean of its column
FilledCell_ColumnMean(df, i, c) ==
    IF isna(df.rows[i][c])
    THEN mean([j \in DOMAIN df.rows |-> df.rows[j][c]])
    ELSE df.rows[i][c]

\* grades.T.fillna(grades.mean(axis=1)).T, one cell
FilledCell(df, i, c) ==
    IF isna(df.rows[i][c]) THEN FillValue(df, df.index[i]) ELSE df.rows[i][c]

\* self.data.loc[:, 'q1':'q5'] = grades
FilledTable(df) ==
    LET cols == Range(GradeColumns(df))
    IN  [index   |-> df.index,
         columns |-> df.columns,
         rows    |-> [i \in DOMAIN df.rows |->
                        [c \in DOMAIN df.rows[i] |->
                            IF c \in cols THEN FilledCell(df, i, c)
                            ELSE df.rows[i][c]]]]

FillNaIndex(df) == np_where(AnyMissing(df))

(***************************************************************************)
(* score_subjects (src/hw5.py 69-95)                                       *)
(***************************************************************************)
\* a variant of TooManyNans with >= for >
TooManyNans_AtLeast(df, m) ==
    [i \in DOMAIN df.rows |-> CountMissing(GradesOf(df, i)) >= m]

\* grades.isnull().sum(axis=1) > maximal_nans_per_sub, one truth value per row
TooManyNans(df, m) == [i \in DOMAIN df.rows |-> CountMissing(GradesOf(df, i)) > m]

ScoreNaIndex(df, m) == np_where(TooManyNans(df, m))

\* grades.mean(numeric_only=True, axis=1).apply(np.floor)
FlooredMeans(df) == [i \in DOMAIN df.rows |-> floor(mean(GradesOf(df, i)))]

\* df['score'].loc[na_index] = np.nan: the rows whose label is in na_index
BlankedScores(df, m) ==
    LET na_index == Range(ScoreNaIndex(df, m))
    IN  [i \in DOMAIN df.rows |->
            IF df.index[i] \in na_index THEN NaN ELSE FlooredMeans(df)[i]]

\* a float as a nullable UInt8: NaN becomes NA (grades stay within 0..255)
UInt8(x) == IF x.na THEN NaN ELSE Num(x.n)

\* pd.Series(df.score.values, dtype="UInt8") carries the labels 0..N-1 and is
\* aligned with the table's labels on assignment
ScoreColumn(df, m) ==
    LET values == BlankedScores(df, m)
    IN  [i \in DOMAIN df.rows |->
            IF df.index[i] + 1 \in DOMAIN values
            THEN UInt8(values[df.index[i] + 1]) ELSE NaN]

ScoredTable(df, m) == SetColumn(df, "score", ScoreColumn(df, m))

(***************************************************************************)
(* remove_rows_without_mail (src/hw5.py 39-48)                             *)
(*                                                                         *)
(* The pattern '^[a-z0-9]+[\._]?[a-z0-9]+[@]\w+[.]\w{1,6}$' is a sequence  *)
(* of items (a character class repeated lo..hi times, hi unbounded for +)  *)
(* between the anchors ^ and $.  Matching follows Python's re.search: the  *)
(* set of positions each item can end at, from the positions before it.    *)
(***************************************************************************)
Lower == {"a", "b", "c", "d", "e", "f", "g", "h", "i", "j", "k", "l", "m",
          "n", "o", "p", "q", "r", "s", "t", "u", "v", "w", "x", "y", "z"}

Upper == {"A", "B", "C", "D", "E", "F", "G", "H", "I", "J", "K", "L", "M",
          "N", "O", "P", "Q", "R", "S", "T", "U", "V", "W", "X", "Y", "Z"}

Digit == {"0", "1", "2", "3", "4", "5", "6", "7", "8", "9"}

\* a variant of LowerAlnum that forgets the case: [a-zA-Z0-9]
LowerAlnum_AnyCase == Lower \cup Upper \cup Digit

\* [a-z0-9]
LowerAlnum == Lower \cup Digit

\* [\._]
DotOrUnderscore == {".", "_"}

\* \w on a str pattern (its ASCII part)
WordChar == Lower \cup Upper \cup Digit \cup {"_"}

Item(class, lo, hi, unbounded) ==
    [class |-> class, lo |-> lo, hi |-> hi, unbounded |-> unbounded]

OneOrMore(class) == Item(class, 1, 0, TRUE)

Optional(class) == Item(class, 0, 1, FALSE)

Once(class) == Item(class, 1, 1, FALSE)

Repeat(class, lo, hi) == Item(class, lo, hi, FALSE)

regex ==
    << OneOrMore(LowerAlnum), Optional(DotOrUnderscore), OneOrMore(LowerAlnum),
       Once({"@"}), OneOrMore(WordChar), Once({"."}), Repeat(WordChar, 1, 6) >>

\* the positions item can end at when it starts at one of starts
ItemEnds(item, s, starts) ==
    {q \in 0..Len(s) :
        \E p \in starts :
            /\ q - p >= item.lo
            /\ item.unbounded \/ q - p <= item.hi
            /\ \A j \in (p + 1)..q : s[j] \in item.class}

RECURSIVE PatternEnds(_, _, _, _)
\* the positions the first k items can end at, matching from one of starts
PatternEnds(items, k, s, starts) ==
    IF k = 0 THEN starts
    ELSE ItemEnds(items[k], s, PatternEnds(items, k - 1, s, starts))

\* ^ without re.MULTILINE: only the start of the string
CaretPositions(s) == {0}

\* $ without re.MULTILINE: the end of the string, or just before a newline
\* that ends the string
DollarAt(s, q) == q = Len(s) \/ (q = Len(s) - 1 /\ s[Len(s)] = "\n")

\* Series.str.contains(regex) on one value: re.search(regex, s) is not None
str_contains(s) ==
    \E q \in PatternEnds(regex, Len(regex), s, CaretPositions(s)) : DollarAt(s, q)

EmailMask(df) == [i \in DOMAIN df.rows |-> str_contains(df.rows[i]["email"])]

\* df[mask]: the rows where the mask holds, with their labels, in order
BooleanSelect(df, mask) ==
    LET kept == np_where(mask)
    IN  [index   |-> [k \in DOMAIN kept |-> df.index[kept[k] + 1]],
         columns |-> df.columns,
         rows    |-> [k \in DOMAIN kept |-> df.rows[kept[k] + 1]]]

\* the name reset_index gives the column that receives the old labels
ResetName(df) == IF "index" \in Range(df.columns) THEN "level_0" ELSE "index"

\* df.reset_index(): the old labels become the first column, the labels
\* become 0..N-1 (pandas raises ValueError when the column name is taken)
reset_index(df) ==
    LET name == ResetName(df)
    IN  [index   |-> RangeIndex(Len(df.rows)),
         columns |-> <<name>> \o df.columns,
         rows    |-> [i \in DOMAIN df.rows |->
                        [c \in (DOMAIN df.rows[i]) \cup {name} |->
                            IF c = name THEN Num(df.index[i])
                            ELSE df.rows[i][c]]]]

CanResetIndex(df) == ResetName(df) \notin Range(df.columns)

WithoutBadMail(df) == reset_index(BooleanSelect(df, EmailMask(df)))

(***************************************************************************)
(* show_age_distrib (src/hw5.py 26-37)                                     *)
(***************************************************************************)
\* np.linspace(0, 100, 11)
linspace == [i \in 1..11 |-> 0 + (i - 1) * ((100 - 0) \div (11 - 1))]

AgeColumn(df) == [i \in DOMAIN df.rows |-> df.rows[i]["age"]]

\* np.searchsorted(np.sort(a), v, 'left'): NaN sorts after every number
SearchSortedLeft(a, v) ==
    Cardinality({i \in DOMAIN a : ~isna(a[i]) /\ RatLess(a[i], Num(v))})

\* np.searchsorted(np.sort(a), v, 'right')
SearchSortedRight(a, v) ==
    Cardinality({i \in DOMAIN a : ~isna(a[i]) /\ ~RatLess(Num(v), a[i])})

\* a variant of CumulativeCounts with 'left' at every edge, which makes the
\* last bin half-open like the others
CumulativeCounts_AllLeft(a, bins) ==
    [k \in DOMAIN bins |-> SearchSortedLeft(a, bins[k])]

\* np.histogram's cumulative counts at the edges: 'left' at every edge but
\* the last, 'right' at the last
CumulativeCounts(a, bins) ==
    [k \in DOMAIN bins |->
        IF k < Len(bins) THEN SearchSortedLeft(a, bins[k])
        ELSE SearchSortedRight(a, bins[k])]

\* np.histogram(a, bins)[0] = np.diff(cum_n)
histogram(a, bins) ==
    LET cum_n == CumulativeCounts(a, bins)
    IN  [k \in 1..(Len(bins) - 1) |-> cum_n[k + 1] - cum_n[k]]

(***************************************************************************)
(* correlate_gender_age (src/hw5.py 97-110)                                *)
(***************************************************************************)
NoGender == [na |-> TRUE, s |-> ""]

Gender(s) == [na |-> FALSE, s |-> s]

\* the gender labels of the model, in ascending (lexicographic) order
Genders == <<"Female", "Male">>

\* a variant of Over40 with >= for >
Over40_AtLeast(age) == ~isna(age) /\ ~RatLess(age, Num(40))

\* lambda age: age > 40 (a comparison with NaN is False)
Over40(age) == ~isna(age) /\ RatLess(Num(40), age)

\* the group key of row i; groupby leaves out a row whose gender is missing
InGroup(df, i, g, b) ==
    /\ ~df.rows[i]["gender"].na
    /\ df.rows[i]["gender"].s = g
    /\ Over40(df.rows[i]["age"]) = b

GroupRows(df, g, b) == {i \in DOMAIN df.rows : InGroup(df, i, g, b)}

RECURSIVE SortedKeys(_, _)
\* the keys (gender, age > 40) that occur, in ascending order (sort=True)
SortedKeys(df, k) ==
    IF k = 0 THEN <<>>
    ELSE LET g == Genders[k]
             lo == IF GroupRows(df, g, FALSE) # {} THEN << <<g, FALSE>> >> ELSE <<>>
             hi == IF GroupRows(df, g, TRUE) # {} THEN << <<g, TRUE>> >> ELSE <<>>
         IN  SortedKeys(df, k - 1) \o lo \o hi

RECURSIVE SeqOfSet(_)
SeqOfSet(S) ==
    IF S = {} THEN <<>>
    ELSE LET x == CHOOSE y \in S : \A z \in S : y <= z
         IN  <<x>> \o SeqOfSet(S \ {x})

\* the mean of column c over the rows of a group, missing values skipped
GroupMean(df, members, c) ==
    LET order == SeqOfSet(members)
    IN  mean([k \in DOMAIN order |-> df.rows[order[k]][c]])

\* groupby(...).mean().loc[:, 'q1':'q5']
GroupedMeans(df) ==
    LET keys == SortedKeys(df, Len(Genders))
        cols == GradeColumns(df)
    IN  [index   |-> keys,
         columns |-> cols,
         rows    |-> [k \in DOMAIN keys |->
                        [c \in Range(cols) |->
                            GroupMean(df, GroupRows(df, keys[k][1], keys[k][2]), c)]]]

(***************************************************************************)
(* The operations, as steps of the processor.                              *)
(***************************************************************************)
show_age_distrib ==
    /\ ret' = [op   |-> "show_age_distrib",
               hist |-> histogram(AgeColumn(data), linspace),
               bins |-> linspace]
    /\ UNCHANGED <<data, maximal_nans_per_sub, loaded>>

\* a variant of remove_rows_without_mail that filters self.data in place
remove_rows_without_mail_InPlace ==
    /\ CanResetIndex(BooleanSelect(data, EmailMask(data)))
    /\ data' = BooleanSelect(data, EmailMask(data))
    /\ ret' = [op |-> "remove_rows_without_mail", df |-> WithoutBadMail(data)]
    /\ UNCHANGED <<maximal_nans_per_sub, loaded>>

remove_rows_without_mail ==
    /\ CanResetIndex(BooleanSelect(data, EmailMask(data)))
    /\ ret' = [op |-> "remove_rows_without_mail", df |-> WithoutBadMail(data)]
    /\ UNCHANGED <<data, maximal_nans_per_sub, loaded>>

fill_na_with_mean ==
    /\ data' = FilledTable(data)
    /\ ret' = [op  |-> "fill_na_with_mean",
               df  |-> FilledTable(data),
               arr |-> FillNaIndex(data)]
    /\ UNCHANGED <<maximal_nans_per_sub, loaded>>

score_subjects(m) ==
    /\ maximal_nans_per_sub' = <<m>>
    /\ data' = ScoredTable(data, m)
    /\ ret' = [op |-> "score_subjects", df |-> ScoredTable(data, m)]
    /\ UNCHANGED loaded

correlate_gender_age ==
    /\ ret' = [op |-> "correlate_gender_age", df |-> GroupedMeans(data)]
    /\ UNCHANGED <<data, maximal_nans_per_sub, loaded>>

(***************************************************************************)
(* Tables read_data can produce: the columns age, gender, email, q1..q5    *)
(* and the default labels 0..N-1.                                          *)
(***************************************************************************)
Columns == <<"age", "gender", "email", "q1", "q2", "q3", "q4", "q5">>

MakeRow(age, gender, email, g) ==
    [age |-> age, gender |-> gender, email |-> email,
     q1 |-> g[1], q2 |-> g[2], q3 |-> g[3], q4 |-> g[4], q5 |-> g[5]]

MakeTable(rows) ==
    [index |-> RangeIndex(Len(rows)), columns |-> Columns, rows |-> rows]

\* a grade is missing or one of the two highest marks
GradeVals == {NaN, Num(MaxGrade - 1), Num(MaxGrade)}

GradeRows == [1..5 -> GradeVals]

CompleteGrades ==
    <<Num(MaxGrade), Num(MaxGrade - 1), Num(MaxGrade), Num(MaxGrade), Num(MaxGrade - 1)>>

PartialGrades == <<Num(MaxGrade), NaN, Num(MaxGrade - 1), NaN, Num(MaxGrade)>>

MissingGrades == <<NaN, NaN, NaN, NaN, NaN>>

SampleGrades == {PartialGrades, MissingGrades}

GoodEmail == <<"j", "o", ".", "d", "@", "e", "x", ".", "c", "o", "m">>

BadEmail == <<"J", "o", "@", "e", "x", ".", "c", "o", "m">>

SampleEmails == {GoodEmail, BadEmail}

RepeatChar(c, n) == [i \in 1..n |-> c]

Prefixes == {<<>>, <<" ">>}

LocalParts ==
    { <<"a">>, <<"a", "b">>, <<"a", ".", "b">>, <<"a", "_", "b">>,
      <<"a", ".">>, <<".", "a">>, <<"a", ".", ".", "b">>, <<"A", "b">>,
      <<"a", "B">>, <<"a", "1">>, <<"a", ".", "B">> }

AtSigns == {<<"@">>, <<>>}

DomainParts == {<<"c">>, <<"C">>, <<"c", "_">>, <<>>}

Dots == {<<".">>, <<>>}

TldParts == {RepeatChar("d", n) : n \in 0..MaxTld} \cup {<<"D">>}

Suffixes == {<<>>, <<"\n">>, <<" ">>, <<"\n", "\n">>}

EmailPool ==
    { pre \o local \o at \o dom \o dot \o tld \o post :
        pre \in Prefixes, local \in LocalParts, at \in AtSigns,
        dom \in DomainParts, dot \in Dots, tld \in TldParts, post \in Suffixes }

AgeVals ==
    {NaN, Rat(19, 2), Rat(201, 2)}
        \cup {Num(v) : v \in {0 - 1, 0, 9, 10, 40, 41, 89, 90, 99, 100, 101}}

GenderVals == {NoGender} \cup {Gender(Genders[k]) : k \in DOMAIN Genders}

DefaultAge == Num(30)

DefaultGender == Gender(Genders[1])

\* the tables in which one row ranges over pool and the others over samples
OneVaried(pool, samples) ==
    { [f EXCEPT ![p] = x] :
        f \in [1..NumRows -> samples], p \in 1..NumRows, x \in pool }

InitWith(rows) ==
    /\ data = MakeTable(rows)
    /\ loaded = MakeTable(rows)
    /\ maximal_nans_per_sub = <<>>
    /\ ret = [op |-> "none"]

\* every call on a table of sample rows
Init ==
    \E rows \in [1..NumRows ->
                    { MakeRow(a, g, e, q) :
                        a \in {NaN, Num(41)}, g \in {DefaultGender},
                        e \in SampleEmails, q \in SampleGrades }] :
        InitWith(rows)

Next ==
    \/ show_age_distrib
    \/ remove_rows_without_mail
    \/ fill_na_with_mean
    \/ \E m \in 0..MaxNans : score_subjects(m)
    \/ correlate_gender_age

Spec == Init /\ [][Next]_vars

\* the grades as input: imputation and scoring
InitGrades ==
    \E g \in OneVaried(GradeRows, SampleGrades) :
        InitWith([i \in 1..NumRows |->
                    MakeRow(DefaultAge, DefaultGender, GoodEmail, g[i])])

NextGrades ==
    \/ fill_na_with_mean
    \/ \E m \in 0..MaxNans : score_subjects(m)

SpecGrades == InitGrades /\ [][NextGrades]_vars

\* the e-mails as input: the filter
InitMail ==
    \E e \in OneVaried(EmailPool, SampleEmails) :
        InitWith([i \in 1..NumRows |->
                    MakeRow(DefaultAge, DefaultGender, e[i], CompleteGrades)])

NextMail == remove_rows_without_mail

SpecMail == InitMail /\ [][NextMail]_vars

\* the ages as input: the histogram
InitAge ==
    \E a \in [1..NumRows -> AgeVals] :
        InitWith([i \in 1..NumRows |->
                    MakeRow(a[i], DefaultGender, GoodEmail, CompleteGrades)])

NextAge == show_age_distrib

SpecAge == InitAge /\ [][NextAge]_vars

\* genders, ages and grades as input: the grouped means
InitCorr ==
    \E rows \in [1..NumRows ->
                    { MakeRow(a, g, GoodEmail, q) :
                        a \in {NaN, Num(40), Num(41)}, g \in GenderVals,
                        q \in {CompleteGrades, PartialGrades, MissingGrades,
                               <<Num(0), Num(MaxGrade), NaN, NaN, NaN>>} }] :
        InitWith(rows)

NextCorr ==
    \/ correlate_gender_age
    \/ fill_na_with_mean

SpecCorr == InitCorr /\ [][NextCorr]_vars

(***************************************************************************)
(* Properties.  Questions names the grade columns; the helpers below state *)
(* what a claim says about one row of a table.                             *)
(***************************************************************************)
Questions == <<"q1", "q2", "q3", "q4", "q5">>

Answers(df, i) == [k \in DOMAIN Questions |-> df.rows[i][Questions[k]]]

NumMissing(df, i) == Cardinality({k \in DOMAIN Questions : Answers(df, i)[k].na})

NumPresent(df, i) == Cardinality({k \in DOMAIN Questions : ~Answers(df, i)[k].na})

Total(df, i) == SumPresent(Answers(df, i), Len(Questions))

\* x is the arithmetic mean of the present grades of row i of df
IsMeanOfPresent(x, df, i) ==
    /\ ~x.na
    /\ x.n * Total(df, i).d * NumPresent(df, i) = Total(df, i).n * x.d

\* x is the integer floor of the arithmetic mean of the present grades of row i
IsFloorOfMeanOfPresent(x, df, i) ==
    /\ ~x.na
    /\ x.d = 1
    /\ x.n * NumPresent(df, i) * Total(df, i).d <= Total(df, i).n
    /\ Total(df, i).n < (x.n + 1) * NumPresent(df, i) * Total(df, i).d

(***************************************************************************)
(* C1: after score_subjects(m), a row with more than m missing grades has  *)
(* the score NA, and a row with at most m missing grades and at least one  *)
(* present grade has the floor of the mean of its present grades.          *)
(***************************************************************************)
C1_ScoreRule ==
    ret.op = "score_subjects" =>
        \A i \in DOMAIN data.rows :
            IF NumMissing(data, i) > maximal_nans_per_sub[1]
            THEN data.rows[i]["score"].na
            ELSE NumPresent(data, i) >= 1 =>
                    IsFloorOfMeanOfPresent(data.rows[i]["score"], data, i)

\* a row with exactly m >= 1 missing grades is scored, a row with all five
\* missing and m < 5 is not
C1_Witness ==
    /\ ret.op = "score_subjects"
    /\ maximal_nans_per_sub[1] \in 1..4
    /\ \E i, j \in DOMAIN data.rows :
        /\ NumMissing(data, i) = maximal_nans_per_sub[1]
        /\ ~data.rows[i]["score"].na
        /\ data.rows[i]["score"].n = MaxGrade - 1
        /\ NumMissing(data, j) = 5
        /\ data.rows[j]["score"].na

(***************************************************************************)
(* C2: fill_na_with_mean replaces each missing grade of a row that had one *)
(* to four missing grades by the mean of the grades that row had, keeps    *)
(* the present grades, and leaves a row without missing grades unchanged.  *)
(***************************************************************************)
C2_FillStep ==
    ret'.op = "fill_na_with_mean" =>
        \A i \in DOMAIN data.rows :
            /\ NumMissing(data, i) \in 1..4 =>
                \A k \in DOMAIN Questions :
                    IF Answers(data, i)[k].na
                    THEN IsMeanOfPresent(Answers(data', i)[k], data, i)
                    ELSE Answers(data', i)[k] = Answers(data, i)[k]
            /\ NumMissing(data, i) = 0 => Answers(data', i) = Answers(data, i)

C2_Imputation == [][C2_FillStep]_vars

\* the two rows had different means, and both were imputed
C2_Witness ==
    /\ ret.op = "fill_na_with_mean"
    /\ \E i, j \in DOMAIN data.rows :
        /\ NumMissing(loaded, i) = 2
        /\ NumMissing(loaded, j) = 4
        /\ NumMissing(data, i) = 0
        /\ NumMissing(data, j) = 0
        /\ Answers(data, i)[1] # Answers(data, j)[1]

(***************************************************************************)
(* C3: the list fill_na_with_mean returns holds exactly the positions of   *)
(* the rows that received an imputed value (a grade missing before the     *)
(* call and a number after it), ascending and without duplicates; a row    *)
(* whose five grades are all missing is not in it.                         *)
(***************************************************************************)
C3_ReceivedValue(i) ==
    \E k \in DOMAIN Questions : Answers(data, i)[k].na /\ ~Answers(data', i)[k].na

C3_FillStep ==
    ret'.op = "fill_na_with_mean" =>
        /\ Range(ret'.arr) = {i - 1 : i \in {j \in DOMAIN data.rows : C3_ReceivedValue(j)}}
        /\ \A a, b \in DOMAIN ret'.arr : a < b => ret'.arr[a] < ret'.arr[b]

C3_ImputedPositions == [][C3_FillStep]_vars

(***************************************************************************)
(* C10: for m in 0..4, fill_na_with_mean followed by score_subjects(m)     *)
(* gives every row that had a present grade when loaded a numeric score,   *)
(* the floor of the mean of the grades present when loaded, which is also  *)
(* the score score_subjects(m) alone gives the row when that is not NA.    *)
(* (No row of the table has one to four missing grades exactly when the    *)
(* imputation has run or has nothing to do.)                               *)
(***************************************************************************)
C10_Imputed == \A i \in DOMAIN data.rows : NumMissing(data, i) \in {0, 5}

C10_FillThenScore ==
    (ret.op = "score_subjects" /\ C10_Imputed /\ maximal_nans_per_sub[1] \in 0..4) =>
        \A i \in DOMAIN data.rows :
            NumPresent(loaded, i) >= 1 =>
                /\ IsFloorOfMeanOfPresent(data.rows[i]["score"], loaded, i)
                /\ LET alone == ScoreColumn(loaded, maximal_nans_per_sub[1])[i]
                   IN  ~alone.na => alone = data.rows[i]["score"]

\* a row that score_subjects(0) alone leaves without a score has one after
\* the imputation
C10_Witness ==
    /\ ret.op = "score_subjects"
    /\ maximal_nans_per_sub[1] = 0
    /\ \E i \in DOMAIN data.rows :
        /\ NumMissing(loaded, i) = 3
        /\ NumMissing(data, i) = 0
        /\ ScoreColumn(loaded, 0)[i].na
        /\ data.rows[i]["score"] = Num(MaxGrade - 1)

(***************************************************************************)
(* The e-mail claims.  Kept(i) says that row i of the table is among the   *)
(* rows the last call of remove_rows_without_mail returned (the returned   *)
(* table carries each row's old label in its first column).                *)
(***************************************************************************)
Email(i) == data.rows[i]["email"]

OldLabel(k) == ret.df.rows[k][ret.df.columns[1]]

Kept(i) == \E k \in DOMAIN ret.df.rows : OldLabel(k) = Num(data.index[i])

AllIn(s, from, to, class) == \A j \in from..to : s[j] \in class

\* one or more lowercase alphanumerics, optionally one '.' or '_', one or
\* more lowercase alphanumerics: the characters 1..n of s
IsLocalPart(s, n) ==
    \/ n >= 2 /\ AllIn(s, 1, n, Lower \cup Digit)
    \/ \E p \in 2..(n - 1) :
        /\ s[p] \in {".", "_"}
        /\ AllIn(s, 1, p - 1, Lower \cup Digit)
        /\ AllIn(s, p + 1, n, Lower \cup Digit)

\* the whole of s is local part, '@', word characters, '.', 1 to 6 word
\* characters
IsWholeAddress(s) ==
    \E at, dot \in DOMAIN s :
        /\ s[at] = "@"
        /\ s[dot] = "."
        /\ IsLocalPart(s, at - 1)
        /\ dot - at >= 2
        /\ AllIn(s, at + 1, dot - 1, Lower \cup Upper \cup Digit \cup {"_"})
        /\ Len(s) - dot \in 1..6
        /\ AllIn(s, dot + 1, Len(s), Lower \cup Upper \cup Digit \cup {"_"})

(***************************************************************************)
(* C4: remove_rows_without_mail returns exactly the rows whose whole       *)
(* e-mail is of the stated shape, with nothing before or after, in their   *)
(* original order.                                                         *)
(***************************************************************************)
C4_ExactlyWholeAddresses ==
    ret.op = "remove_rows_without_mail" =>
        /\ \A i \in DOMAIN data.rows : Kept(i) <=> IsWholeAddress(Email(i))
        /\ \A a, b \in DOMAIN ret.df.rows : a < b => OldLabel(a).n < OldLabel(b).n

(***************************************************************************)
(* C5: remove_rows_without_mail drops every row whose e-mail contains an   *)
(* uppercase letter, in the local part or in the domain part.              *)
(***************************************************************************)
HasUpper(s) == \E j \in DOMAIN s : s[j] \in Upper

\* an uppercase letter with no '@' before it
HasUpperBeforeAt(s) ==
    \E j \in DOMAIN s : s[j] \in Upper /\ \A k \in 1..j : s[k] # "@"

C5_AnyUpperDropped ==
    ret.op = "remove_rows_without_mail" =>
        \A i \in DOMAIN data.rows : HasUpper(Email(i)) => ~Kept(i)

\* C5 as amended: a row whose e-mail has an uppercase letter before its
\* first '@' is dropped (an uppercase letter after the '@' is a word
\* character and does not by itself drop the row)
C5_UpperLocalDropped ==
    ret.op = "remove_rows_without_mail" =>
        \A i \in DOMAIN data.rows : HasUpperBeforeAt(Email(i)) => ~Kept(i)

\* "Jo@ex.com" is dropped and "ab@C.d" is kept
C5_Witness ==
    /\ ret.op = "remove_rows_without_mail"
    /\ \E i, j \in DOMAIN data.rows :
        /\ Email(i) = BadEmail
        /\ HasUpperBeforeAt(Email(i))
        /\ ~Kept(i)
        /\ Email(j) = <<"a", "b", "@", "C", ".", "d">>
        /\ Kept(j)

(***************************************************************************)
(* C6: filtering the table remove_rows_without_mail returned gives the     *)
(* identical table: same rows, same columns, same index.                   *)
(***************************************************************************)
C6_Idempotent ==
    ret.op = "remove_rows_without_mail" =>
        /\ CanResetIndex(BooleanSelect(ret.df, EmailMask(ret.df)))
        /\ WithoutBadMail(ret.df).columns = ret.df.columns
        /\ WithoutBadMail(ret.df).index = ret.df.index
        /\ WithoutBadMail(ret.df).rows = ret.df.rows

(***************************************************************************)
(* C7: whatever is called, the processor's table keeps the rows it was     *)
(* loaded with, in the same order; remove_rows_without_mail leaves the     *)
(* table as it is and returns a table whose index is 0..N-1.               *)
(***************************************************************************)
C7_SameRow(i) ==
    /\ data.index[i] = loaded.index[i]
    /\ data.rows[i]["age"] = loaded.rows[i]["age"]
    /\ data.rows[i]["gender"] = loaded.rows[i]["gender"]
    /\ data.rows[i]["email"] = loaded.rows[i]["email"]
    /\ \A k \in DOMAIN Questions :
        ~Answers(loaded, i)[k].na => Answers(data, i)[k] = Answers(loaded, i)[k]

C7_SameRows ==
    /\ DOMAIN data.rows = DOMAIN loaded.rows
    /\ DOMAIN data.index = DOMAIN loaded.index
    /\ \A i \in DOMAIN loaded.rows : C7_SameRow(i)

C7_FreshIndex ==
    ret.op = "remove_rows_without_mail" =>
        /\ DOMAIN ret.df.index = DOMAIN ret.df.rows
        /\ \A k \in DOMAIN ret.df.index : ret.df.index[k] = k - 1

C7_RemoveStep == ret'.op = "remove_rows_without_mail" => data' = data

C7_TableKept == [](C7_SameRows /\ C7_FreshIndex) /\ [][C7_RemoveStep]_vars

\* the filter dropped a row of a table that was imputed and scored before
C7_Witness ==
    /\ ret.op = "remove_rows_without_mail"
    /\ Len(ret.df.rows) = Len(data.rows) - 1
    /\ "score" \in Range(data.columns)
    /\ \E i \in DOMAIN data.rows :
        NumMissing(loaded, i) = 2 /\ NumMissing(data, i) = 0

(***************************************************************************)
(* C8: correlate_gender_age returns one row per pair (gender, age > 40)    *)
(* that occurs among the rows, holding the means of the non-missing q1..q5 *)
(* of the rows of that pair, in ascending order of gender, then boolean.   *)
(***************************************************************************)
C8_Rank(g) == CHOOSE k \in DOMAIN Genders : Genders[k] = g

C8_Key(k) == ret.df.index[k]

\* the rows of the table with this gender cell and this truth value of age > 40
C8_Members(cell, b) ==
    {i \in DOMAIN data.rows :
        /\ data.rows[i]["gender"] = cell
        /\ (~data.rows[i]["age"].na /\ data.rows[i]["age"].n > 40 * data.rows[i]["age"].d) = b}

C8_HasRowFor(cell, b) ==
    /\ ~cell.na
    /\ Cardinality({k \in DOMAIN ret.df.index : C8_Key(k) = <<cell.s, b>>}) = 1

\* x is the mean of the non-missing values of column c over members (missing
\* when there is none)
C8_IsMeanOver(x, members, c) ==
    LET present == {i \in members : ~data.rows[i][c].na}
        order == SeqOfSet(present)
        total == SumPresent([k \in DOMAIN order |-> data.rows[order[k]][c]], Len(order))
    IN  IF present = {} THEN x.na
        ELSE ~x.na /\ x.n * total.d * Cardinality(present) = total.n * x.d

C8_Values ==
    \A k \in DOMAIN ret.df.index :
        \A q \in DOMAIN Questions :
            C8_IsMeanOver(ret.df.rows[k][Questions[q]],
                          C8_Members(Gender(C8_Key(k)[1]), C8_Key(k)[2]),
                          Questions[q])

C8_Ascending ==
    \A a, b \in DOMAIN ret.df.index :
        a < b =>
            \/ C8_Rank(C8_Key(a)[1]) < C8_Rank(C8_Key(b)[1])
            \/ C8_Key(a)[1] = C8_Key(b)[1] /\ ~C8_Key(a)[2] /\ C8_Key(b)[2]

C9_AgeIn(i, lo, hi, closed) ==
    LET age == data.rows[i]["age"]
    IN  /\ ~age.na
        /\ lo * age.d <= age.n
        /\ IF closed THEN age.n <= hi * age.d ELSE age.n < hi * age.d

C9_Count(lo, hi, closed) ==
    Cardinality({i \in DOMAIN data.rows : C9_AgeIn(i, lo, hi, closed)})

RECURSIVE C9_Sum(_, _)
C9_Sum(h, k) == IF k = 0 THEN 0 ELSE C9_Sum(h, k - 1) + h[k]

C9_AgeBins ==
    ret.op = "show_age_distrib" =>
        /\ Len(ret.hist) = 10
        /\ ret.bins = <<0, 10, 20, 30, 40, 50, 60, 70, 80, 90, 100>>
        /\ \A b \in 0..8 : ret.hist[b + 1] = C9_Count(10 * b, 10 * (b + 1), FALSE)
        /\ ret.hist[10] = C9_Count(90, 100, TRUE)
        /\ C9_Sum(ret.hist, 10) = C9_Count(0, 100, TRUE)
        /\ data = loaded

\* age 100 is counted in the last bin, age 101 in none
C9_Witness ==
    /\ ret.op = "show_age_distrib"
    /\ \E i, j \in DOMAIN data.rows :
        /\ data.rows[i]["age"] = Num(100)
        /\ data.rows[j]["age"] = Num(101)
    /\ ret.hist[10] = 1
    /\ C9_Sum(ret.hist, 10) = 1
=============================================================================
